---- MODULE Spec2Model ----
(***************************************************************************)
(* Gravitational lensing library: thin lens contract (base.py), external   *)
(* shear profile (external_shear.py), multi-plane engine, NFW profile       *)
(* (nfw.py).                                                               *)
(*                                                                         *)
(* Numbers are exact rationals <<n, d>> (d > 0, lowest terms); tensors are *)
(* finite sequences of rationals; Python's None is the value None.         *)
(* Angles are rationals counting quarter-pi units (phi = k * pi/4 is the   *)
(* value <<k, 1>>): the angles on which cos(2*phi), sin(2*phi) are         *)
(* rational.                                                               *)
(*                                                                         *)
(* The NFW profile (nfw.py) computes with floating point values: a         *)
(* rational, or one of nan = <<0, 0>>, inf = <<1, 0>>, -inf = <<-1, 0>>.   *)
(***************************************************************************)
EXTENDS Integers, Sequences, FiniteSets, TLC

\* lens: the ExternalShear instance; cosmology: the shared cosmology handle;
\* last: the call in progress and what it returned; memo: the first call of a
\* probe input made on the instance, kept to compare later calls with;
\* multiplane: the multi-plane lens; evaluated: the branch tensors the last
\* call computed and handed to torch.where
VARIABLES lens, cosmology, last, memo, multiplane, evaluated

vars == <<lens, cosmology, last, memo, multiplane, evaluated>>

\* ------------------------------------------------------------------ bounds

\* longest coordinate tensor a call is given
MaxLen == 1
\* longest lens chain of a multiplane lens
MaxChain == 2

\* ------------------------------------------------------------- rationals

\* Python's None (no rational and no tensor equals it)
None == <<>>

Abs(n) == IF n < 0 THEN -n ELSE n

RECURSIVE GCD(_, _)
GCD(a, b) == IF b = 0 THEN a ELSE GCD(b, a % b)

\* the rational n/d in lowest terms with a positive denominator (d # 0)
Rat(n, d) ==
    LET g == GCD(Abs(n), Abs(d))
        sgn == IF d < 0 THEN -1 ELSE 1
    IN  <<(sgn * n) \div g, (sgn * d) \div g>>

Zero == Rat(0, 1)
One == Rat(1, 1)
Half == Rat(1, 2)

RAdd(a, b) == Rat(a[1] * b[2] + b[1] * a[2], a[2] * b[2])
RNeg(a) == <<-a[1], a[2]>>
RSub(a, b) == RAdd(a, RNeg(b))
RMul(a, b) == Rat(a[1] * b[1], a[2] * b[2])
\* b # 0
RDiv(a, b) == Rat(a[1] * b[2], a[2] * b[1])
RSq(a) == RMul(a, a)
RLeq(a, b) == a[1] * b[2] <= b[1] * a[2]

\* ---------------------------------------------------------------- tensors
\* element-wise arithmetic; a scalar broadcasts over a tensor

TAdd(t, u) == [i \in 1..Len(t) |-> RAdd(t[i], u[i])]
TSub(t, u) == [i \in 1..Len(t) |-> RSub(t[i], u[i])]
TMul(t, u) == [i \in 1..Len(t) |-> RMul(t[i], u[i])]
TScale(s, t) == [i \in 1..Len(t) |-> RMul(s, t[i])]
TSq(t) == TMul(t, t)

\* torch.zeros_like(x)
zeros_like(x) == [i \in 1..Len(x) |-> Zero]

\* ------------------------------------------------------------ call results

Value(v) == [kind |-> "value", value |-> v, error |-> ""]
Raise(e) == [kind |-> "error", value |-> None, error |-> e]
IsValue(r) == r.kind = "value"
IsError(r) == r.kind = "error"

\* ------------------------------------------------------------- cosmology
\* The cosmology adapter is an external collaborator: a flat universe whose
\* transverse comoving distance is h * z / (1 + z) for a scale h fixed by
\* the handle.

Cosmologies == {"FlatA", "FlatB"}

hubble_distance(c) == IF c = "FlatA" THEN Rat(6, 1) ELSE Rat(10, 1)

transverse_comoving_distance(c, z) ==
    RMul(hubble_distance(c), RDiv(z, RAdd(One, z)))

transverse_comoving_distance_z1z2(c, z1, z2) ==
    RSub(transverse_comoving_distance(c, z2), transverse_comoving_distance(c, z1))

angular_diameter_distance(c, z) ==
    RDiv(transverse_comoving_distance(c, z), RAdd(One, z))

angular_diameter_distance_z1z2(c, z1, z2) ==
    RDiv(transverse_comoving_distance_z1z2(c, z1, z2), RAdd(One, z2))

\* critical surface density, in units of c^2 / (4 pi G)
Sigma_cr(c, z_l, z_s) ==
    RDiv(angular_diameter_distance(c, z_s),
         RMul(angular_diameter_distance(c, z_l),
              angular_diameter_distance_z1z2(c, z_l, z_s)))

\* --------------------------------------------------------------- strings
\* a str is the tuple of its characters

UpperCase == <<"A", "C", "E", "I", "L", "N", "O", "P", "R", "S", "T">>
LowerCase == <<"a", "c", "e", "i", "l", "n", "o", "p", "r", "s", "t">>

LowerChar(ch) ==
    IF \E i \in 1..Len(UpperCase) : UpperCase[i] = ch
    THEN LowerCase[CHOOSE i \in 1..Len(UpperCase) : UpperCase[i] = ch]
    ELSE ch

\* lower with the case conversion left out: a case-sensitive comparison
lower_CaseSensitive(str) == str

\* str.lower()
lower(str) == [i \in 1..Len(str) |-> LowerChar(str[i])]

cartesian == <<"c", "a", "r", "t", "e", "s", "i", "a", "n">>
polar == <<"p", "o", "l", "a", "r">>

\* ------------------------------------------------------ parameter packing
\* Parametrized: params is the sequence of registered [name, value] pairs in
\* registration order; a value of None marks a dynamic parameter.

add_param(params, name, value) ==
    Append(params, [name |-> name, value |-> value])

ParamNames(params) == [i \in 1..Len(params) |-> params[i].name]

\* override bundles: the argument omitted, an explicit None, named (by
\* parameter name), or positional (one value per dynamic parameter, in
\* registration order)
Omitted == [kind |-> "omitted", named |-> <<>>, positional |-> <<>>]
NoneBundle == [kind |-> "none", named |-> <<>>, positional |-> <<>>]
Named(f) == [kind |-> "named", named |-> f, positional |-> <<>>]
Positional(vs) == [kind |-> "positional", named |-> <<>>, positional |-> vs]

\* how many dynamic parameters are registered before (and including) i
DynamicIndex(params, i) ==
    Cardinality({j \in 1..i : params[j].value = None})

\* the effective value of the i-th registered parameter: the caller's
\* keyword when given, else the bundle's override when it supplies one, else
\* the bound default
Resolve(params, P, kw, i) ==
    IF params[i].name \in DOMAIN kw
    THEN kw[params[i].name]
    ELSE IF P.kind = "named" /\ params[i].name \in DOMAIN P.named
         THEN P.named[params[i].name]
         ELSE IF /\ P.kind = "positional"
                 /\ params[i].value = None
                 /\ DynamicIndex(params, i) <= Len(P.positional)
              THEN P.positional[DynamicIndex(params, i)]
              ELSE params[i].value

\* Parametrized.unpack: the tuple of effective values in registration
\* order; a parameter with neither override nor default is an error
unpack(params, P, kw) ==
    IF \E i \in 1..Len(params) : Resolve(params, P, kw, i) = None
    THEN Raise("MissingParameterError")
    ELSE Value([i \in 1..Len(params) |-> Resolve(params, P, kw, i)])

\* the keyword arguments the unpack decorator hands to the wrapped method:
\* every resolved parameter by name, and the caller's other keywords
UnpackKwargs(params, P, kw) ==
    [n \in (DOMAIN kw) \cup {params[i].name : i \in 1..Len(params)} |->
        IF \E i \in 1..Len(params) : params[i].name = n
        THEN Resolve(params, P, kw, CHOOSE i \in 1..Len(params) : params[i].name = n)
        ELSE kw[n]]

\* --------------------------------------------------------------- ThinLens

NoLens ==
    [status |-> "none", params |-> <<>>, cosmology |-> "", parametrization |-> <<>>,
     convert |-> "unset", s |-> None]

\* ThinLens.__init__: binds the cosmology handle and registers z_l
ThinLens_init(self, cosmo, z_l) ==
    [self EXCEPT !.cosmology = cosmo,
                 !.params = add_param(self.params, "z_l", z_l)]

\* ----------------------------------------------------------- ExternalShear

\* ExternalShear.__init__ calling super().__init__ after its own add_param
\* calls instead of before them
ExternalShear_init_SuperLast(cosmo, z_l, gamma_1, gamma_2, gamma, phi, parametrization, s) ==
    LET own ==
            IF lower(parametrization) = cartesian
            THEN add_param(add_param(<<>>, "gamma_1", gamma_1), "gamma_2", gamma_2)
            ELSE add_param(add_param(<<>>, "gamma", gamma), "phi", phi)
        base == ThinLens_init([NoLens EXCEPT !.params = own], cosmo, z_l)
    IN  IF lower(parametrization) \notin {cartesian, polar}
        THEN [ThinLens_init(NoLens, cosmo, z_l) EXCEPT
                 !.status = "failed", !.parametrization = parametrization]
        ELSE [base EXCEPT
                 !.status = "constructed",
                 !.parametrization = parametrization,
                 !.s = s,
                 !.convert = IF lower(parametrization) = cartesian
                             THEN "identity" ELSE "polar"]

\* ExternalShear.__init__; status "failed" is the ValueError leaving the
\* constructor, with the registrations made up to that point
ExternalShear_init(cosmo, z_l, gamma_1, gamma_2, gamma, phi, parametrization, s) ==
    LET base == ThinLens_init(NoLens, cosmo, z_l)
        withParams ==
            IF lower(parametrization) = cartesian
            THEN [base EXCEPT !.params =
                     add_param(add_param(base.params, "gamma_1", gamma_1),
                               "gamma_2", gamma_2)]
            ELSE IF lower(parametrization) = polar
                 THEN [base EXCEPT !.params =
                          add_param(add_param(base.params, "gamma", gamma),
                                    "phi", phi)]
                 ELSE [base EXCEPT !.status = "failed"]
    IN  IF withParams.status = "failed"
        THEN [withParams EXCEPT !.parametrization = parametrization]
        ELSE [withParams EXCEPT
                 !.status = "constructed",
                 !.parametrization = parametrization,
                 !.s = s,
                 !.convert = IF lower(parametrization) = cartesian
                             THEN "identity" ELSE "polar"]

\* torch.cos and torch.sin of an angle a given in quarter-pi units, on the
\* multiples of pi/2 (a[1] even, a[2] = 1)
cos(a) ==
    CASE a[1] % 8 = 0 -> One
      [] a[1] % 8 = 4 -> RNeg(One)
      [] OTHER -> Zero

sin(a) ==
    CASE a[1] % 8 = 2 -> One
      [] a[1] % 8 = 6 -> RNeg(One)
      [] OTHER -> Zero

Two == Rat(2, 1)

\* dict.get(name): None when the key is absent
Get(kwargs, name) == IF name \in DOMAIN kwargs THEN kwargs[name] ELSE None

\* kwargs[name] = value
Put(kwargs, name, value) ==
    [n \in (DOMAIN kwargs) \cup {name} |-> IF n = name THEN value ELSE kwargs[n]]

\* ExternalShear._polar_to_cartesian; arithmetic on None is a TypeError
_polar_to_cartesian(gamma, phi) ==
    IF gamma = None \/ phi = None
    THEN Raise("TypeError")
    ELSE Value(<<RMul(gamma, cos(RMul(Two, phi))), RMul(gamma, sin(RMul(Two, phi)))>>)

\* _convert_polar_to_cartesian keeping a gamma_1/gamma_2 the caller passed
\* (kwargs.setdefault instead of assignment)
PolarAssign_KeepsCallerValue(self, kwargs, c) ==
    IF IsError(c)
    THEN [self |-> self, result |-> c]
    ELSE [self |-> self,
          result |-> Value(
              Put(Put(kwargs, "gamma_1",
                      IF "gamma_1" \in DOMAIN kwargs THEN kwargs["gamma_1"] ELSE c.value[1]),
                  "gamma_2",
                  IF "gamma_2" \in DOMAIN kwargs THEN kwargs["gamma_2"] ELSE c.value[2]))]

\* _convert_polar_to_cartesian caching the converted pair on the instance
\* (self.add_param("gamma_1", gamma_1); self.add_param("gamma_2", gamma_2))
PolarAssign_StoresOnSelf(self, kwargs, c) ==
    IF IsError(c)
    THEN [self |-> self, result |-> c]
    ELSE [self |-> [self EXCEPT !.params =
                       add_param(add_param(self.params, "gamma_1", c.value[1]),
                                 "gamma_2", c.value[2])],
          result |-> Value(Put(Put(kwargs, "gamma_1", c.value[1]),
                               "gamma_2", c.value[2]))]

\* the rest of _convert_polar_to_cartesian once c, the converted pair, is
\* known: kwargs["gamma_1"] = gamma_1; kwargs["gamma_2"] = gamma_2
PolarAssign(self, kwargs, c) ==
    IF IsError(c)
    THEN [self |-> self, result |-> c]
    ELSE [self |-> self,
          result |-> Value(Put(Put(kwargs, "gamma_1", c.value[1]),
                               "gamma_2", c.value[2]))]

\* ExternalShear._convert_polar_to_cartesian: the instance it ran on and the
\* keyword arguments it returns
_convert_polar_to_cartesian(self, args, kwargs) ==
    PolarAssign(self, kwargs,
                _polar_to_cartesian(Get(kwargs, "gamma"), Get(kwargs, "phi")))

\* the cartesian converter, lambda self, *args, **kwargs: kwargs; it is an
\* instance attribute, so the first positional argument binds to its self
_convert_identity(self, args, kwargs) ==
    IF Len(args) = 0
    THEN [self |-> self, result |-> Raise("TypeError")]
    ELSE [self |-> self, result |-> Value(kwargs)]

\* the convert_params decorator: runs the converter the constructor chose
convert_params(self, args, kwargs) ==
    CASE self.convert = "polar" -> _convert_polar_to_cartesian(self, args, kwargs)
      [] self.convert = "identity" -> _convert_identity(self, args, kwargs)
      [] OTHER -> [self |-> self, result |-> Value(kwargs)]

\* 0.5 * gamma_1 * (x**2 - y**2) + gamma_2 * x * y
PotentialValue(x, y, gamma_1, gamma_2) ==
    IF gamma_1 = None \/ gamma_2 = None
    THEN Raise("TypeError")
    ELSE Value(TAdd(TScale(RMul(Half, gamma_1), TSub(TSq(x), TSq(y))),
                    TMul(TScale(gamma_2, x), y)))

\* ExternalShear.potential, the method body
potential_body(x, y, kwargs) ==
    PotentialValue(x, y, Get(kwargs, "gamma_1"), Get(kwargs, "gamma_2"))

\* the deflection with a sign slip in its second component:
\* a2 = x * gamma_2 + y * gamma_1
DeflectionValue_SignSlip(x, y, gamma_1, gamma_2) ==
    IF gamma_1 = None \/ gamma_2 = None
    THEN Raise("TypeError")
    ELSE Value(<<TAdd(TScale(gamma_1, x), TScale(gamma_2, y)),
                 TAdd(TScale(gamma_2, x), TScale(gamma_1, y))>>)

\* a1 = x * gamma_1 + y * gamma_2; a2 = x * gamma_2 - y * gamma_1
DeflectionValue(x, y, gamma_1, gamma_2) ==
    IF gamma_1 = None \/ gamma_2 = None
    THEN Raise("TypeError")
    ELSE Value(<<TAdd(TScale(gamma_1, x), TScale(gamma_2, y)),
                 TSub(TScale(gamma_2, x), TScale(gamma_1, y))>>)

\* ExternalShear.reduced_deflection_angle, the method body
reduced_deflection_angle_body(x, y, kwargs) ==
    DeflectionValue(x, y, Get(kwargs, "gamma_1"), Get(kwargs, "gamma_2"))

\* ExternalShear.convergence, the method body. Its docstring opens at column
\* 15 (line 254) and the return statement dedents to column 8 (line 285),
\* which matches no enclosing block: Python rejects the body with an
\* IndentationError, and torch.zeros_like(x) is never returned.
convergence_body(x, y, kwargs) == Raise("IndentationError")

ShearOps == {"potential", "reduced_deflection_angle", "convergence"}

\* the method body of op on the converted keyword arguments
ShearBody(self, op, x, y, kwargs) ==
    [self |-> self,
     kwargs |-> kwargs,
     result |-> CASE op = "potential" -> potential_body(x, y, kwargs)
                  [] op = "reduced_deflection_angle" ->
                        reduced_deflection_angle_body(x, y, kwargs)
                  [] OTHER -> convergence_body(x, y, kwargs)]

\* the wrapper of convert_params after the converter returned c
ShearConverted(op, x, y, c) ==
    IF IsError(c.result)
    THEN [self |-> c.self, kwargs |-> None, result |-> c.result]
    ELSE ShearBody(c.self, op, x, y, c.result.value)

\* the decorators stacked the other way round (@convert_params @unpack): the
\* converter runs on the keyword arguments before a failed resolution is
\* reported
ShearResolved_ConvertFirst(self, op, x, y, z_s, r, k0) ==
    LET c == convert_params(self, <<x, y, z_s>>, k0)
    IN  IF IsError(c.result)
        THEN [self |-> c.self, kwargs |-> None, result |-> c.result]
        ELSE IF IsError(r)
             THEN [self |-> self, kwargs |-> None, result |-> r]
             ELSE ShearBody(c.self, op, x, y, c.result.value)

\* the wrapper of unpack after resolution returned r and the keyword
\* arguments k0
ShearResolved(self, op, x, y, z_s, r, k0) ==
    IF IsError(r)
    THEN [self |-> self, kwargs |-> None, result |-> r]
    ELSE ShearConverted(op, x, y, convert_params(self, <<x, y, z_s>>, k0))

\* a decorated ExternalShear method, @unpack @convert_params def op(...):
\* resolution, then conversion, then the body; gives the instance after the
\* call, the keyword arguments the body was given, and the result
ShearCall(self, op, x, y, z_s, P, kw) ==
    ShearResolved(self, op, x, y, z_s,
                  unpack(self.params, P, kw), UnpackKwargs(self.params, P, kw))

\* ------------------------------------------------- ThinLens operations
\* base.py's ThinLens methods, run on an ExternalShear instance. Each gives
\* the instance after the call and the call's result. A bundle argument P
\* left out takes the signature's default, None.

Out(c) == [self |-> c.self, result |-> c.result]

\* ThinLens.deflection_angle is abstract; ExternalShear implements the
\* reduced deflection angle
deflection_angle(self, x, y, z_s, P) ==
    Out(ShearCall(self, "reduced_deflection_angle", x, y, z_s, P, <<>>))

convergence(self, x, y, z_s, P) ==
    Out(ShearCall(self, "convergence", x, y, z_s, P, <<>>))

potential(self, x, y, z_s, P) ==
    Out(ShearCall(self, "potential", x, y, z_s, P, <<>>))

\* a deflection_angle_hat that scales by d_ls / d_s
HatScale_InverseRatio(d_s, d_ls, a) ==
    IF IsError(a.result)
    THEN a
    ELSE [self |-> a.self,
          result |-> Value(<<TScale(RDiv(d_ls, d_s), a.result.value[1]),
                             TScale(RDiv(d_ls, d_s), a.result.value[2])>>)]

\* (d_s / d_ls) * deflection_angle_x, (d_s / d_ls) * deflection_angle_y
HatScale(d_s, d_ls, a) ==
    IF IsError(a.result)
    THEN a
    ELSE [self |-> a.self,
          result |-> Value(<<TScale(RDiv(d_s, d_ls), a.result.value[1]),
                             TScale(RDiv(d_s, d_ls), a.result.value[2])>>)]

\* deflection_angle_hat after z_l = self.unpack(P)[0]
HatResolved(self, x, y, z_s, P, z_l) ==
    HatScale(angular_diameter_distance(self.cosmology, z_s),
             angular_diameter_distance_z1z2(self.cosmology, z_l, z_s),
             deflection_angle(self, x, y, z_s, P))

\* deflection_angle_hat once self.unpack(P) has returned u: z_l = self.unpack(P)[0]
HatUnpacked(self, x, y, z_s, P, u) ==
    IF IsError(u)
    THEN [self |-> self, result |-> u]
    ELSE HatResolved(self, x, y, z_s, P, u.value[1])

\* ThinLens.deflection_angle_hat
deflection_angle_hat(self, x, y, z_s, P) ==
    HatUnpacked(self, x, y, z_s, P, unpack(self.params, P, <<>>))

\* self.convergence(x, y, z_s, P) * Sigma_cr
SigmaScale(Sigma_cr_value, k) ==
    IF IsError(k.result)
    THEN k
    ELSE [self |-> k.self, result |-> Value(TScale(Sigma_cr_value, k.result.value))]

SigmaResolved(self, x, y, z_s, P, z_l) ==
    SigmaScale(Sigma_cr(self.cosmology, z_l, z_s), convergence(self, x, y, z_s, P))

\* Sigma once self.unpack(P) has returned u: z_l = self.unpack(P)[0]
SigmaUnpacked(self, x, y, z_s, P, u) ==
    IF IsError(u)
    THEN [self |-> self, result |-> u]
    ELSE SigmaResolved(self, x, y, z_s, P, u.value[1])

\* ThinLens.Sigma
Sigma(self, x, y, z_s, P) ==
    SigmaUnpacked(self, x, y, z_s, P, unpack(self.params, P, <<>>))

\* return x - ax, y - ay
RaytraceValue(x, y, a) ==
    IF IsError(a.result)
    THEN a
    ELSE [self |-> a.self,
          result |-> Value(<<TSub(x, a.result.value[1]), TSub(y, a.result.value[2])>>)]

\* ThinLens.raytrace
raytrace(self, x, y, z_s, P) == RaytraceValue(x, y, deflection_angle(self, x, y, z_s, P))

\* factor = (1 + z_l) / c_Mpc_s * d_s * d_l / d_ls
\* fp = 0.5 * d_ls**2 / d_s**2 * (ax**2 + ay**2) - potential
\* return factor * fp * arcsec_to_rad**2, in units of arcsec_to_rad^2 / c_Mpc_s
TimeDelayValue(z_l, d_l, d_s, d_ls, ax, ay, psi) ==
    TScale(RDiv(RMul(RMul(RAdd(One, z_l), d_s), d_l), d_ls),
           TSub(TScale(RDiv(RMul(Half, RSq(d_ls)), RSq(d_s)), TAdd(TSq(ax), TSq(ay))),
                psi))

TimeDelayPotential(self, z_l, z_s, a, psi) ==
    IF IsError(psi.result)
    THEN psi
    ELSE [self |-> psi.self,
          result |-> Value(TimeDelayValue(
                        z_l,
                        angular_diameter_distance(self.cosmology, z_l),
                        angular_diameter_distance(self.cosmology, z_s),
                        angular_diameter_distance_z1z2(self.cosmology, z_l, z_s),
                        a.result.value[1], a.result.value[2], psi.result.value))]

TimeDelayDeflected(x, y, z_s, P, z_l, a) ==
    IF IsError(a.result)
    THEN a
    ELSE TimeDelayPotential(a.self, z_l, z_s, a, potential(a.self, x, y, z_s, P))

TimeDelayResolved(self, x, y, z_s, P, z_l) ==
    TimeDelayDeflected(x, y, z_s, P, z_l, deflection_angle(self, x, y, z_s, P))

\* time_delay once self.unpack(P) has returned u: z_l = self.unpack(P)[0]
TimeDelayUnpacked(self, x, y, z_s, P, u) ==
    IF IsError(u)
    THEN [self |-> self, result |-> u]
    ELSE TimeDelayResolved(self, x, y, z_s, P, u.value[1])

\* ThinLens.time_delay
time_delay(self, x, y, z_s, P) ==
    TimeDelayUnpacked(self, x, y, z_s, P, unpack(self.params, P, <<>>))

\* 1/0 of floating point arithmetic
Inf == <<1, 0>>

Shift(t, h) == [i \in 1..Len(t) |-> RAdd(t[i], h)]

\* half the difference of component c of two ray-traced positions
CentralDifference(p, m, c) == TScale(Half, TSub(p[c], m[c]))

Reciprocal(d) == IF d = Zero THEN Inf ELSE RDiv(One, d)

TReciprocal(t) == [i \in 1..Len(t) |-> Reciprocal(t[i])]

\* one over the determinant of the Jacobian [[xx, xy], [yx, yy]]
InverseDeterminant(xx, xy, yx, yy) ==
    TReciprocal(TSub(TMul(xx, yy), TMul(xy, yx)))

MagnificationValue(xp, xm, yp, ym) ==
    IF IsError(xp.result)
    THEN xp
    ELSE [self |-> xp.self,
          result |-> Value(InverseDeterminant(
                        CentralDifference(xp.result.value, xm.result.value, 1),
                        CentralDifference(yp.result.value, ym.result.value, 1),
                        CentralDifference(xp.result.value, xm.result.value, 2),
                        CentralDifference(yp.result.value, ym.result.value, 2)))]

\* utils.get_magnification over the partial raytrace(P = P): one over the
\* determinant of the Jacobian of raytrace with respect to (x, y); the
\* derivative is taken by central differences of step one, which is the
\* derivative itself on a map affine in (x, y)
get_magnification(self, x, y, z_s, P) ==
    MagnificationValue(raytrace(self, Shift(x, One), y, z_s, P),
                       raytrace(self, Shift(x, RNeg(One)), y, z_s, P),
                       raytrace(self, x, Shift(y, One), z_s, P),
                       raytrace(self, x, Shift(y, RNeg(One)), z_s, P))

\* ThinLens.magnification
magnification(self, x, y, z_s, P) == get_magnification(self, x, y, z_s, P)

\* whether the signature of cls.op gives the bundle argument P a default
\* (P: "Packed" = None); ThickLens.magnification(self, x, y, z_s, P) and
\* ThinLens.magnification(self, x, y, z_s, P: "Packed") give none
PHasDefault(cls, op) == op # "magnification"

\* Python's argument binding: a call that leaves out an argument without a
\* default is a TypeError before the method runs
BindP(cls, op, P) ==
    IF P.kind = "omitted" /\ ~PHasDefault(cls, op)
    THEN Raise("TypeError")
    ELSE Value(P)

ThinOps ==
    {"deflection_angle", "deflection_angle_hat", "convergence", "potential",
     "Sigma", "raytrace", "time_delay", "magnification"}

\* the method op of ThinLens
ThinMethod(self, op, x, y, z_s, P) ==
    CASE op = "deflection_angle" -> deflection_angle(self, x, y, z_s, P)
      [] op = "deflection_angle_hat" -> deflection_angle_hat(self, x, y, z_s, P)
      [] op = "convergence" -> convergence(self, x, y, z_s, P)
      [] op = "potential" -> potential(self, x, y, z_s, P)
      [] op = "Sigma" -> Sigma(self, x, y, z_s, P)
      [] op = "raytrace" -> raytrace(self, x, y, z_s, P)
      [] op = "time_delay" -> time_delay(self, x, y, z_s, P)
      [] OTHER -> magnification(self, x, y, z_s, P)

\* a call of a public ThinLens operation
ThinCall(self, op, x, y, z_s, P) ==
    IF IsError(BindP("ThinLens", op, P))
    THEN [self |-> self, result |-> Raise("TypeError")]
    ELSE ThinMethod(self, op, x, y, z_s, P)

\* ------------------------------------------------ ThickLens, MultiplaneLens
\* The multi-plane lens holds a chain of thin lenses (ExternalShear
\* instances here). A positional bundle is flat: the dynamic parameters of
\* the first lens, then those of the second, and so on, as the multiplane
\* test builds it.

\* NaN of floating point arithmetic (0 * inf)
NaN == <<0, 0>>

NonDecreasing(zs) == \A i \in 1..(Len(zs) - 1) : RLeq(zs[i], zs[i + 1])

\* the redshifts bound at construction, in chain order
BoundRedshifts(lenses) ==
    LET idx == {i \in 1..Len(lenses) : lenses[i].params[1].value # None}
        rank(i) == Cardinality({j \in idx : j <= i})
    IN  [k \in 1..Cardinality(idx) |->
            lenses[CHOOSE i \in idx : rank(i) = k].params[1].value]

\* a constructor that accepts every chain
Multiplane_init_NoCheck(cosmo, lenses) ==
    [status |-> "constructed", lenses |-> lenses, cosmology |-> cosmo]

\* MultiplaneLens.__init__(name, cosmology, lenses): a chain whose redshifts
\* are not sorted is a construction-time error; a redshift left dynamic has
\* no value yet and takes no part in the test
Multiplane_init(cosmo, lenses) ==
    IF NonDecreasing(BoundRedshifts(lenses))
    THEN [status |-> "constructed", lenses |-> lenses, cosmology |-> cosmo]
    ELSE [status |-> "failed", lenses |-> lenses, cosmology |-> cosmo]

DynamicCount(params) == Cardinality({i \in 1..Len(params) : params[i].value = None})

RECURSIVE DynamicBefore(_, _)
DynamicBefore(lenses, i) ==
    IF i = 1 THEN 0
    ELSE DynamicBefore(lenses, i - 1) + DynamicCount(lenses[i - 1].params)

\* the values of a flat tensor from offset off on, at most n of them
Slice(vs, off, n) ==
    [k \in 1..(IF Len(vs) - off < n
               THEN (IF Len(vs) < off THEN 0 ELSE Len(vs) - off)
               ELSE n) |-> vs[off + k]]

\* the bundle of the i-th lens of the chain: its share of a flat positional
\* bundle
ChildBundle(lenses, P, i) ==
    IF P.kind = "positional"
    THEN Positional(Slice(P.positional, DynamicBefore(lenses, i),
                          DynamicCount(lenses[i].params)))
    ELSE P

\* the unpack of every lens of the chain
ChainUnpack(lenses, P) ==
    [i \in 1..Len(lenses) |-> unpack(lenses[i].params, ChildBundle(lenses, P, i), <<>>)]

\* the resolved redshifts of the chain (every unpack succeeded)
ChainRedshifts(lenses, P) ==
    [i \in 1..Len(lenses) |-> ChainUnpack(lenses, P)[i].value[1]]

NaNTensor(x) == [i \in 1..Len(x) |-> NaN]

IsNaN(r) == IsValue(r) /\ \E i \in 1..Len(r.value[1]) : r.value[1][i] = NaN

\* the ray after a plane: its angle less the physical deflection alpha, and
\* its comoving position carried to the next plane over the plane-to-plane
\* distance D
Propagate(ray, thx, thy, D) ==
    [X |-> TAdd(ray.X, TScale(D, thx)), Y |-> TAdd(ray.Y, TScale(D, thy)),
     thx |-> thx, thy |-> thy, error |-> ""]

\* the ray after a plane once the physical deflection a of its lens is known
PlaneStep(ray, a, D) ==
    IF IsError(a.result)
    THEN [ray EXCEPT !.error = a.result.error]
    ELSE Propagate(ray, TSub(ray.thx, a.result.value[1]),
                   TSub(ray.thy, a.result.value[2]), D)

\* the ray leaving plane i: the lens deflects the ray at its angular
\* position on the plane by its physical deflection angle, whose source is
\* the next plane z_next (the true source after the last plane). Planes at
\* one redshift have D_ls = 0: the deflection is infinite and 0 * inf is nan
PlaneRay(c, lens_i, P_i, z_i, z_next, ray) ==
    IF z_i = z_next
    THEN [ray EXCEPT !.error = "nan"]
    ELSE PlaneStep(ray,
                   deflection_angle_hat(
                      lens_i,
                      TScale(RDiv(One, transverse_comoving_distance(c, z_i)), ray.X),
                      TScale(RDiv(One, transverse_comoving_distance(c, z_i)), ray.Y),
                      z_next, P_i),
                   transverse_comoving_distance_z1z2(c, z_i, z_next))

\* the ray on the source plane, from the ray arriving at plane i
RECURSIVE TracePlanes(_, _, _, _, _, _, _)
TracePlanes(c, lenses, P, zs, z_s, i, ray) ==
    IF i > Len(lenses) \/ ray.error # ""
    THEN ray
    ELSE TracePlanes(c, lenses, P, zs, z_s, i + 1,
                     PlaneRay(c, lenses[i], ChildBundle(lenses, P, i), zs[i],
                              IF i = Len(lenses) THEN z_s ELSE zs[i + 1], ray))

\* the angular position on the source plane of the traced ray
SourcePosition(x, y, D_end, ray) ==
    IF ray.error = "nan"
    THEN Value(<<NaNTensor(x), NaNTensor(y)>>)
    ELSE IF ray.error # ""
         THEN Raise(ray.error)
         ELSE Value(<<TScale(RDiv(One, D_end), ray.X), TScale(RDiv(One, D_end), ray.Y)>>)

\* the recursion once the redshifts zs of the chain are resolved: the ray
\* starts on the first plane at comoving position D_1 * (x, y) with the
\* observed angles
TraceResolved(c, lenses, x, y, z_s, P, zs) ==
    SourcePosition(
        x, y, transverse_comoving_distance(c, z_s),
        TracePlanes(c, lenses, P, zs, z_s, 1,
                    [X |-> TScale(transverse_comoving_distance(c, zs[1]), x),
                     Y |-> TScale(transverse_comoving_distance(c, zs[1]), y),
                     thx |-> x, thy |-> y, error |-> ""]))

\* MultiplaneLens ray-tracing recursion over the planes of the chain in
\* chain order, from the observed angles (x, y) to the source plane
Multiplane_trace(c, lenses, x, y, z_s, P) ==
    IF \E i \in 1..Len(lenses) : IsError(ChainUnpack(lenses, P)[i])
    THEN Raise("MissingParameterError")
    ELSE TraceResolved(c, lenses, x, y, z_s, P, ChainRedshifts(lenses, P))

\* x - bx, y - by
AngleFrom(x, y, b) ==
    IF IsError(b) \/ IsNaN(b)
    THEN b
    ELSE Value(<<TSub(x, b.value[1]), TSub(y, b.value[2])>>)

\* MultiplaneLens.deflection_angle, the primitive the ThickLens operations
\* are derived from: the angle between the observed and the traced position
Multiplane_deflection_angle(self, x, y, z_s, P) ==
    [self |-> self,
     result |-> AngleFrom(x, y, Multiplane_trace(self.cosmology, self.lenses,
                                                 x, y, z_s, P))]

\* return x - ax, y - ay
ThickRaytraceValue(x, y, a) ==
    IF IsError(a.result) \/ IsNaN(a.result)
    THEN a
    ELSE [self |-> a.self,
          result |-> Value(<<TSub(x, a.result.value[1]), TSub(y, a.result.value[2])>>)]

\* ThickLens.raytrace
ThickLens_raytrace(self, x, y, z_s, P) ==
    ThickRaytraceValue(x, y, Multiplane_deflection_angle(self, x, y, z_s, P))

\* get_magnification over four ray-traced neighbours; nan spreads
ThickMagnificationValue(xp, xm, yp, ym) ==
    IF \E r \in {xp, xm, yp, ym} : IsNaN(r.result)
    THEN [self |-> xp.self, result |-> Value(NaNTensor(xp.result.value[1]))]
    ELSE MagnificationValue(xp, xm, yp, ym)

\* ThickLens.magnification:
\* return get_magnification(partial(self.raytrace, P=P), x, y, z_s)
ThickLens_magnification(self, x, y, z_s, P) ==
    ThickMagnificationValue(ThickLens_raytrace(self, Shift(x, One), y, z_s, P),
                            ThickLens_raytrace(self, Shift(x, RNeg(One)), y, z_s, P),
                            ThickLens_raytrace(self, x, Shift(y, One), z_s, P),
                            ThickLens_raytrace(self, x, Shift(y, RNeg(One)), z_s, P))

ThickOps == {"deflection_angle", "raytrace", "magnification"}

\* the method op of the multi-plane ThickLens
ThickMethod(self, op, x, y, z_s, P) ==
    CASE op = "deflection_angle" -> Multiplane_deflection_angle(self, x, y, z_s, P)
      [] op = "raytrace" -> ThickLens_raytrace(self, x, y, z_s, P)
      [] OTHER -> ThickLens_magnification(self, x, y, z_s, P)

\* a call of a public ThickLens operation
ThickCall(self, op, x, y, z_s, P) ==
    IF IsError(BindP("ThickLens", op, P))
    THEN [self |-> self, result |-> Raise("TypeError")]
    ELSE ThickMethod(self, op, x, y, z_s, P)

\* ------------------------------------------------- floating point values
\* IEEE arithmetic on a rational or nan, inf, -inf; a finite result is exact

NegInf == <<-1, 0>>

IsFinite(a) == a[2] # 0

\* -1, 0 or 1
Sign(a) == IF a[1] < 0 THEN -1 ELSE IF a[1] > 0 THEN 1 ELSE 0

FNeg(a) == <<-a[1], a[2]>>

FAdd(a, b) ==
    IF a = NaN \/ b = NaN THEN NaN
    ELSE IF ~IsFinite(a) /\ ~IsFinite(b) THEN (IF a = b THEN a ELSE NaN)
    ELSE IF ~IsFinite(a) THEN a
    ELSE IF ~IsFinite(b) THEN b
    ELSE RAdd(a, b)

FSub(a, b) == FAdd(a, FNeg(b))

\* 0 * inf is nan
FMul(a, b) ==
    IF a = NaN \/ b = NaN THEN NaN
    ELSE IF IsFinite(a) /\ IsFinite(b) THEN RMul(a, b)
    ELSE IF Sign(a) * Sign(b) = 0 THEN NaN
    ELSE <<Sign(a) * Sign(b), 0>>

\* x / 0 is inf with the sign of x, 0 / 0 is nan
FDiv(a, b) ==
    IF a = NaN \/ b = NaN THEN NaN
    ELSE IF ~IsFinite(a) /\ ~IsFinite(b) THEN NaN
    ELSE IF ~IsFinite(a) THEN <<Sign(a) * (IF Sign(b) < 0 THEN -1 ELSE 1), 0>>
    ELSE IF ~IsFinite(b) THEN Zero
    ELSE IF b = Zero THEN (IF a = Zero THEN NaN ELSE <<Sign(a), 0>>)
    ELSE RDiv(a, b)

FSq(a) == FMul(a, a)

\* a > b, a < b: False when either is nan
FGt(a, b) ==
    /\ a # NaN /\ b # NaN /\ a # b
    /\ IF IsFinite(a) /\ IsFinite(b) THEN ~RLeq(a, b)
       ELSE a = Inf \/ b = NegInf

FLt(a, b) == FGt(b, a)

\* the largest r in lo..hi with r * r <= n
RECURSIVE SqrtSearch(_, _, _)
SqrtSearch(n, lo, hi) ==
    IF lo >= hi THEN lo
    ELSE IF ((lo + hi + 1) \div 2) * ((lo + hi + 1) \div 2) <= n
         THEN SqrtSearch(n, (lo + hi + 1) \div 2, hi)
         ELSE SqrtSearch(n, lo, ((lo + hi + 1) \div 2) - 1)

\* the integer square root of a perfect square
IntSqrt(n) ==
    CHOOSE r \in {SqrtSearch(n, 0, IF n < 46340 THEN n ELSE 46340)} : r * r = n

\* Tensor.sqrt: nan below zero; the inputs of the model are those whose
\* square roots are rational
sqrt(a) ==
    IF a = NaN \/ a = NegInf THEN NaN
    ELSE IF a = Inf THEN Inf
    ELSE IF a[1] < 0 THEN NaN
    ELSE <<IntSqrt(a[1]), IntSqrt(a[2])>>

\* Tensor.arctan, by the first two terms t - t^3/3 of its series (its
\* argument here is nan or a square root below 1)
arctan(t) ==
    IF ~IsFinite(t) THEN NaN
    ELSE RSub(t, RDiv(RMul(t, RSq(t)), Rat(3, 1)))

\* Tensor.arctanh, by the first two terms t + t^3/3 of its series: nan
\* outside [-1, 1], inf at 1
arctanh(t) ==
    IF ~IsFinite(t) THEN NaN
    ELSE IF t = One THEN Inf
    ELSE IF t = RNeg(One) THEN NegInf
    ELSE IF ~RLeq(t, One) \/ ~RLeq(RNeg(One), t) THEN NaN
    ELSE RAdd(t, RDiv(RMul(t, RSq(t)), Rat(3, 1)))

\* Tensor.log, by the first term 2u of its series in u = (v - 1)/(v + 1):
\* nan below zero, -inf at 0
log(v) ==
    IF v = NaN \/ v = NegInf THEN NaN
    ELSE IF v = Inf THEN Inf
    ELSE IF v[1] < 0 THEN NaN
    ELSE IF v = Zero THEN NegInf
    ELSE RMul(Two, RDiv(RSub(v, One), RAdd(v, One)))

\* torch.where(condition, a, b), element by element, on tensors a and b
\* already computed over every element
where(condition, a, b) ==
    [i \in 1..Len(condition) |-> IF condition[i] THEN a[i] ELSE b[i]]

\* x > 1, x < 1
GtOne(x) == [i \in 1..Len(x) |-> FGt(x[i], One)]
LtOne(x) == [i \in 1..Len(x) |-> FLt(x[i], One)]

\* a Python scalar broadcast to the shape of x
Full(x, v) == [i \in 1..Len(x) |-> v]

\* torch.atan2(y, x) in quarter-pi units, for a point on an axis (a zero
\* carries no sign here: at the origin torch returns 0 or pi by the signs of
\* the zeros)
atan2(y, x) ==
    CASE y = Zero /\ x[1] >= 0 -> Zero
      [] y = Zero /\ x[1] < 0 -> Rat(4, 1)
      [] x = Zero /\ y[1] > 0 -> Rat(2, 1)
      [] x = Zero /\ y[1] < 0 -> Rat(-2, 1)

\* a conversion that leaves out the factor 0.5
CartesianToPolar_FullAngle(gamma_1, gamma_2) ==
    <<sqrt(RAdd(RSq(gamma_1), RSq(gamma_2))), atan2(gamma_2, gamma_1)>>

\* ExternalShear._cartesian_to_polar
_cartesian_to_polar(gamma_1, gamma_2) ==
    <<sqrt(RAdd(RSq(gamma_1), RSq(gamma_2))), RMul(Half, atan2(gamma_2, gamma_1))>>

ConvertOps == {"_polar_to_cartesian", "_cartesian_to_polar"}

\* ExternalShear.<op>(a, b) for a conversion
Convert(op, a, b) ==
    IF op = "_polar_to_cartesian"
    THEN _polar_to_cartesian(a, b)
    ELSE Value(_cartesian_to_polar(a, b))

\* ---------------------------------------------------------------- NFW

DELTA == 200

\* ((x - 1) / (x + 1)).sqrt()
RootAbove(x) == sqrt(FDiv(FSub(x, One), FAdd(x, One)))

\* ((1 - x) / (1 + x)).sqrt()
RootBelow(x) == sqrt(FDiv(FSub(One, x), FAdd(One, x)))

\* 2 / (x**2 - 1).sqrt() * ((x - 1) / (x + 1)).sqrt().arctan()
ArctanForm(x) ==
    FMul(FDiv(Two, sqrt(FSub(FSq(x), One))), arctan(RootAbove(x)))

\* 2 / (1 - x**2).sqrt() * ((1 - x) / (1 + x)).sqrt().arctanh()
ArctanhForm(x) ==
    FMul(FDiv(Two, sqrt(FSub(One, FSq(x)))), arctanh(RootBelow(x)))

\* the x > 1 and x < 1 tensors of NFW._f
f_above(x) == [i \in 1..Len(x) |-> FSub(One, ArctanForm(x[i]))]
f_below(x) == [i \in 1..Len(x) |-> FSub(One, ArctanhForm(x[i]))]

\* a constant 1.0 where x is 1
f_UnitAtOne(x) ==
    where(GtOne(x), f_above(x), where(LtOne(x), f_below(x), Full(x, One)))

\* NFW._f
_f(x) ==
    where(GtOne(x), f_above(x), where(LtOne(x), f_below(x), Full(x, Zero)))

\* term_1 = 1 / 2 * (x / 2).log() ** 2
g_term_1(x) ==
    [i \in 1..Len(x) |-> FMul(Half, FSq(log(FDiv(x[i], Two))))]

\* the x > 1 and x < 1 tensors of NFW._g
g_above(x) == [i \in 1..Len(x) |-> FMul(Two, FSq(arctan(RootAbove(x[i]))))]
g_below(x) == [i \in 1..Len(x) |-> FMul(FNeg(Two), FSq(arctanh(RootBelow(x[i]))))]

g_term_2(x) ==
    where(GtOne(x), g_above(x), where(LtOne(x), g_below(x), Full(x, Zero)))

FTAdd(t, u) == [i \in 1..Len(t) |-> FAdd(t[i], u[i])]

\* NFW._g
_g(x) == FTAdd(g_term_1(x), g_term_2(x))

\* term_1 = (x / 2).log()
h_term_1(x) == [i \in 1..Len(x) |-> log(FDiv(x[i], Two))]

\* the x > 1 and x < 1 tensors of NFW._h
h_above(x) == [i \in 1..Len(x) |-> ArctanForm(x[i])]
h_below(x) == [i \in 1..Len(x) |-> ArctanhForm(x[i])]

h_term_2(x) ==
    where(GtOne(x), h_above(x), where(LtOne(x), h_below(x), Full(x, One)))

\* NFW._h
_h(x) == FTAdd(h_term_1(x), h_term_2(x))

\* cosmology.rho_cr(z), the critical density
rho_cr(cosmo, z) == RDiv(RAdd(One, z), RSq(hubble_distance(cosmo)))

\* the unit of angle is the arcsecond
arcsec_to_rad == One

\* the integer cube root of a perfect cube
IntCbrt(n) == CHOOSE r \in 0..n : r * r * r = n

\* a ** (1 / 3); the inputs of the model are those whose cube roots are
\* rational
Cbrt(a) == <<IntCbrt(a[1]), IntCbrt(a[2])>>

\* NFW.get_r_s; the mass m counts units of 4 * pi / 3 solar masses, so that
\* 3 * m / (4 * pi) is the number m
get_r_s(z_l, cosmo, m, c) ==
    RMul(RDiv(One, c), Cbrt(RDiv(m, RMul(Rat(DELTA, 1), rho_cr(cosmo, z_l)))))

\* NFW.get_rho_s
get_rho_s(z_l, cosmo, c) ==
    RDiv(RMul(RMul(RDiv(Rat(DELTA, 1), Rat(3, 1)), rho_cr(cosmo, z_l)), RMul(c, RSq(c))),
         RSub(log(RAdd(One, c)), RDiv(c, RAdd(One, c))))

\* NFW.get_kappa_s
get_kappa_s(z_l, z_s, cosmo, m, c) ==
    RDiv(RMul(get_rho_s(z_l, cosmo, c), get_r_s(z_l, cosmo, m, c)),
         Sigma_cr(cosmo, z_l, z_s))

\* transform_scalar_fn(thx0, thy0): the helper sees the coordinates relative
\* to the centre (thx0, thy0)
Translate(t, t0) == [i \in 1..Len(t) |-> RSub(t[i], t0)]

\* th = (thx**2 + thy**2).sqrt(); xi = d_l * th * arcsec_to_rad;
\* x = xi / r_s
Radius(thx, thy, z_l, cosmo, m, c) ==
    [i \in 1..Len(thx) |->
        FDiv(FMul(FMul(angular_diameter_distance(cosmo, z_l),
                       sqrt(FAdd(FSq(thx[i]), FSq(thy[i])))),
                  arcsec_to_rad),
             get_r_s(z_l, cosmo, m, c))]

\* 2 * kappa_s * self._f(x) / (x**2 - 1)
KappaValue(kappa_s, x, f) ==
    [i \in 1..Len(x) |->
        FDiv(FMul(FMul(Two, kappa_s), f[i]), FSub(FSq(x[i]), One))]

\* the dimensionless radius the helper of kappa and Psi computes
NFW_x(thx, thy, z_l, cosmo, thx0, thy0, m, c) ==
    Radius(Translate(thx, thx0), Translate(thy, thy0), z_l, cosmo, m, c)

\* NFW.kappa
kappa(thx, thy, z_l, z_s, cosmo, thx0, thy0, m, c) ==
    Value(KappaValue(get_kappa_s(z_l, z_s, cosmo, m, c),
                     NFW_x(thx, thy, z_l, cosmo, thx0, thy0, m, c),
                     _f(NFW_x(thx, thy, z_l, cosmo, thx0, thy0, m, c))))

\* value(arg) for a value that is a Tensor: 'Tensor' object is not callable
CallTensor(value, arg) == Raise("TypeError")

\* 4 * kappa_s(z_s) * self._g(x): the product is not formed once its first
\* factor has raised
PsiValue(called, g) ==
    IF IsError(called)
    THEN called
    ELSE Value([i \in 1..Len(g) |-> FMul(FMul(Rat(4, 1), called.value), g[i])])

\* NFW.Psi
Psi(thx, thy, z_l, z_s, cosmo, thx0, thy0, m, c) ==
    PsiValue(CallTensor(get_kappa_s(z_l, z_s, cosmo, m, c), z_s),
             _g(NFW_x(thx, thy, z_l, cosmo, thx0, thy0, m, c)))

ProfileOps == {"kappa", "Psi"}

\* NFW.<op>(thx, thy, z_l, z_s, cosmology, thx0, thy0, m, c)
ProfileCall(op, thx, thy, z_l, z_s, cosmo, thx0, thy0, m, c) ==
    IF op = "kappa"
    THEN kappa(thx, thy, z_l, z_s, cosmo, thx0, thy0, m, c)
    ELSE Psi(thx, thy, z_l, z_s, cosmo, thx0, thy0, m, c)

AuxOps == {"_f", "_g", "_h"}

\* NFW.<op>(x) for an auxiliary function
AuxCall(op, x) ==
    CASE op = "_f" -> _f(x)
      [] op = "_g" -> _g(x)
      [] OTHER -> _h(x)

\* the tensors the call handed to torch.where for the branches x > 1 and
\* x < 1, computed over every element of x
AuxBranches(op, x) ==
    CASE op = "_f" -> [above |-> f_above(x), below |-> f_below(x), selected |-> _f(x)]
      [] op = "_g" -> [above |-> g_above(x), below |-> g_below(x),
                       selected |-> g_term_2(x)]
      [] OTHER -> [above |-> h_above(x), below |-> h_below(x),
                   selected |-> h_term_2(x)]

\* ------------------------------------------------------------- inputs

Points ==
    <<<<Rat(1, 1), Rat(1, 1)>>, <<Rat(-2, 1), Rat(1, 1)>>, <<Rat(3, 1), Rat(2, 1)>>>>

\* the coordinate tensors (x, y) a call is given: equal shapes, length n
CoordTensor(n, k, c) == [i \in 1..n |-> Points[((k + i - 1) % Len(Points)) + 1][c]]

CoordInputs ==
    {<<CoordTensor(n, k, 1), CoordTensor(n, k, 2)>> :
        n \in 1..MaxLen, k \in 0..(Len(Points) - 1)}

SourceRedshifts == {Rat(3, 2)}
LensRedshifts == {Rat(1, 2)}
Gamma1Values == {Rat(1, 10)}
Gamma2Values == {Zero}
GammaValues == {Rat(1, 5)}
PhiValues == {Rat(3, 1)}

Parametrizations ==
    {cartesian, <<"P", "o", "l", "a", "r">>, <<"s", "h", "e", "a", "r">>}

\* the value a bundle supplies for a parameter
OverrideValue(name) ==
    CASE name = "z_l" -> Rat(1, 1)
      [] name = "gamma_1" -> Rat(1, 5)
      [] name = "gamma_2" -> Rat(1, 10)
      [] name = "gamma" -> Rat(1, 2)
      [] OTHER -> Rat(1, 1)

DynamicNames(params) ==
    LET idx == {i \in 1..Len(params) : params[i].value = None}
    IN  [k \in 1..Cardinality(idx) |->
            params[CHOOSE i \in idx : DynamicIndex(params, i) = k].name]

\* the bundles a caller passes to a model with these parameters
Bundles(params) ==
    LET dyn == DynamicNames(params)
        names == {params[i].name : i \in 1..Len(params)}
    IN  {Omitted, NoneBundle,
         Named([n \in names |-> OverrideValue(n)]),
         Named([n \in {"z_l"} |-> OverrideValue(n)]),
         Positional([k \in 1..Len(dyn) |-> OverrideValue(dyn[k])])}
        \cup {Positional([k \in 1..(Len(dyn) - 1) |-> OverrideValue(dyn[k])]) :
                 j \in {1} \cap (1..Len(dyn))}

\* the keywords a caller adds to a call of an ExternalShear method
Keywords == {<<>>, [n \in {"gamma_1"} |-> Rat(3, 10)]}

\* ----------------------------------------------------------- state machine

NoCall ==
    [obj |-> "none", op |-> "none", x |-> None, y |-> None, z_s |-> None,
     P |-> Omitted, kw |-> <<>>, kwargs |-> None, result |-> Value(None)]

NoMemo == [call |-> NoCall, between |-> FALSE]

\* no torch.where has run
NoBranches == <<>>

NoMultiplane == [status |-> "none", lenses |-> <<>>, cosmology |-> ""]

Init ==
    /\ lens = NoLens
    /\ cosmology = "FlatA"
    /\ last = NoCall
    /\ memo = NoMemo
    /\ multiplane = NoMultiplane
    /\ evaluated = NoBranches

Idle == last.op \in {"none", "__init__"}

\* the calls whose first result is kept in memo
IsProbe(call) ==
    /\ call.op \in {"potential", "reduced_deflection_angle"}
    /\ call.x = CoordTensor(1, 0, 1)
    /\ call.kw = <<>>
    /\ call.P.kind = "omitted" \/ Cardinality(DOMAIN call.P.named) > 1

SameInputs(c1, c2) ==
    /\ c1.obj = c2.obj /\ c1.op = c2.op /\ c1.x = c2.x /\ c1.y = c2.y
    /\ c1.z_s = c2.z_s /\ c1.P = c2.P /\ c1.kw = c2.kw

\* memo after a call: the first probe call is kept; between records that a
\* call with other inputs followed it
Remember(call) ==
    IF memo.call.op = "none"
    THEN IF IsProbe(call) THEN [call |-> call, between |-> FALSE] ELSE memo
    ELSE IF SameInputs(memo.call, call) THEN memo ELSE [memo EXCEPT !.between = TRUE]

\* lens = ExternalShear(cosmology, z_l, gamma_1, gamma_2, gamma, phi,
\*                      parametrization)
Construct ==
    /\ lens.status # "constructed"
    /\ multiplane.status = "none"
    /\ \E z_l \in LensRedshifts \cup {None},
          gamma_1 \in Gamma1Values \cup {None},
          gamma_2 \in Gamma2Values \cup {None},
          gamma \in GammaValues \cup {None},
          phi \in PhiValues \cup {None},
          parametrization \in Parametrizations :
            lens' = ExternalShear_init(cosmology, z_l, gamma_1, gamma_2, gamma, phi,
                                       parametrization, Zero)
    /\ last' = [NoCall EXCEPT !.obj = "lens", !.op = "__init__"]
    /\ UNCHANGED <<cosmology, memo, multiplane, evaluated>>

\* lens.<op>(x, y, z_s, [P], **kw) for a decorated ExternalShear method
CallShear ==
    /\ lens.status = "constructed"
    /\ Idle
    /\ \E op \in ShearOps, xy \in CoordInputs, z_s \in SourceRedshifts,
          P \in Bundles(lens.params), kw \in Keywords :
         LET out == ShearCall(lens, op, xy[1], xy[2], z_s, P, kw)
             call == [obj |-> "lens", op |-> op, x |-> xy[1], y |-> xy[2],
                      z_s |-> z_s, P |-> P, kw |-> kw, kwargs |-> out.kwargs,
                      result |-> out.result]
         IN  /\ lens' = out.self
             /\ cosmology' = out.self.cosmology
             /\ last' = call
             /\ memo' = Remember(call)
    /\ UNCHANGED <<multiplane, evaluated>>

\* lens.<op>(x, y, z_s, [P]) for a ThinLens operation
CallThin ==
    /\ lens.status = "constructed"
    /\ Idle
    /\ \E op \in ThinOps \ {"deflection_angle", "convergence", "potential"},
          xy \in CoordInputs, z_s \in SourceRedshifts, P \in Bundles(lens.params) :
         LET out == ThinCall(lens, op, xy[1], xy[2], z_s, P)
             call == [obj |-> "lens", op |-> op, x |-> xy[1], y |-> xy[2],
                      z_s |-> z_s, P |-> P, kw |-> <<>>, kwargs |-> None,
                      result |-> out.result]
         IN  /\ lens' = out.self
             /\ cosmology' = out.self.cosmology
             /\ last' = call
             /\ memo' = Remember(call)
    /\ UNCHANGED <<multiplane, evaluated>>

\* the caller takes the result of the call
Return ==
    /\ ~Idle
    /\ last' = NoCall
    /\ evaluated' = NoBranches
    /\ UNCHANGED <<lens, cosmology, memo, multiplane>>

\* the i-th lens of a chain under construction, its redshift bound to z_l or
\* left dynamic (None) as in the multiplane test
ChainShear == <<<<Rat(1, 10), Zero>>, <<Rat(1, 5), Rat(1, 10)>>, <<Rat(-1, 10), Rat(1, 5)>>>>

ChainRedshiftValues == {Rat(1, 2), Rat(1, 1)}

ChainLens(cosmo, i, z_l) ==
    ExternalShear_init(cosmo, z_l, ChainShear[i][1], ChainShear[i][2], None, None,
                       cartesian, Zero)

Chains(cosmo) ==
    UNION {{[i \in 1..n |-> ChainLens(cosmo, i, zs[i])] :
               zs \in [1..n -> ChainRedshiftValues \cup {None}]} : n \in 1..MaxChain}

\* how many dynamic parameters the chain has
ChainDynamic(lenses) == DynamicBefore(lenses, Len(lenses) + 1)

\* the bundles a caller hands to a multi-plane call: none, or the flat
\* tensor of the dynamic parameters, complete or one short
ChainBundles(lenses) ==
    {Omitted, NoneBundle}
    \cup {Positional(vs) : vs \in [1..ChainDynamic(lenses) -> ChainRedshiftValues]}
    \cup {Positional(vs) :
            vs \in UNION {[1..k -> {Rat(1, 2)}] :
                            k \in {ChainDynamic(lenses) - 1} \ {-1}}}

InitMultiplane ==
    /\ lens = NoLens
    /\ cosmology \in Cosmologies
    /\ last = NoCall
    /\ memo = NoMemo
    /\ multiplane = NoMultiplane
    /\ evaluated = NoBranches

\* multiplane = MultiplaneLens("multiplane", cosmology, lenses)
ConstructMultiplane ==
    /\ multiplane.status # "constructed"
    /\ lens.status = "none"
    /\ Idle
    /\ \E lenses \in Chains(cosmology) :
         /\ multiplane' = Multiplane_init(cosmology, lenses)
         /\ last' = [NoCall EXCEPT
                       !.obj = "multiplane", !.op = "__init__",
                       !.result = IF Multiplane_init(cosmology, lenses).status = "failed"
                                  THEN Raise("ConfigurationError")
                                  ELSE Value(None)]
    /\ UNCHANGED <<lens, cosmology, memo, evaluated>>

\* multiplane.<op>(x, y, z_s, [P]) for a ThickLens operation
CallMultiplane ==
    /\ multiplane.status = "constructed"
    /\ Idle
    /\ \E op \in ThickOps, xy \in CoordInputs, z_s \in SourceRedshifts,
          P \in ChainBundles(multiplane.lenses) :
         LET out == ThickCall(multiplane, op, xy[1], xy[2], z_s, P)
         IN  /\ multiplane' = out.self
             /\ cosmology' = out.self.cosmology
             /\ last' = [obj |-> "multiplane", op |-> op, x |-> xy[1], y |-> xy[2],
                         z_s |-> z_s, P |-> P, kw |-> <<>>, kwargs |-> None,
                         result |-> out.result]
    /\ UNCHANGED <<lens, memo, evaluated>>

Next == Construct \/ CallShear \/ CallThin \/ Return

Spec == Init /\ [][Next]_vars

NextMultiplane == ConstructMultiplane \/ CallMultiplane \/ Return

SpecMultiplane == InitMultiplane /\ [][NextMultiplane]_vars

\* shear strengths, angles k * pi/4 and shears along the axes
ShearStrengths == {Rat(-1, 5), Zero, Rat(1, 5), Rat(1, 2)}

ShearAngles == {Rat(k, 1) : k \in -4..4}

AxisShears ==
    {<<g, Zero>> : g \in ShearStrengths} \cup {<<Zero, g>> : g \in ShearStrengths}

ConvertInputs(op) ==
    IF op = "_polar_to_cartesian"
    THEN ShearStrengths \X ShearAngles
    ELSE AxisShears

\* the call ExternalShear.<op>(a, b) and its result
ConvertCall(op, a, b) ==
    [NoCall EXCEPT !.obj = "ExternalShear", !.op = op, !.x = a, !.y = b,
                   !.result = Convert(op, a, b)]

InitConvert ==
    /\ lens = NoLens
    /\ cosmology \in Cosmologies
    /\ last = NoCall
    /\ memo = NoMemo
    /\ multiplane = NoMultiplane
    /\ evaluated = NoBranches

\* ExternalShear._polar_to_cartesian(gamma, phi),
\* ExternalShear._cartesian_to_polar(gamma_1, gamma_2)
CallConvert ==
    /\ Idle
    /\ \E op \in ConvertOps : \E ab \in ConvertInputs(op) :
         last' = ConvertCall(op, ab[1], ab[2])
    /\ memo' = NoMemo
    /\ UNCHANGED <<lens, cosmology, multiplane, evaluated>>

\* the other conversion applied to what the last conversion returned; memo
\* keeps the first call
ConvertBack ==
    /\ last.obj = "ExternalShear" /\ last.op \in ConvertOps
    /\ memo = NoMemo
    /\ last' = ConvertCall(CHOOSE op \in ConvertOps : op # last.op,
                           last.result.value[1], last.result.value[2])
    /\ memo' = [call |-> last, between |-> FALSE]
    /\ UNCHANGED <<lens, cosmology, multiplane, evaluated>>

NextConvert == CallConvert \/ ConvertBack \/ Return

SpecConvert == InitConvert /\ [][NextConvert]_vars

\* the dimensionless radii x > 0 a call is made at: 1, and on either side
\* of 1 the radii (k^2 + 1)/(k^2 - 1) and (k^2 - 1)/(k^2 + 1), whose square
\* roots in F, G and H are rational
GridSteps == {2, 3, 4}

Radii ==
    {One} \cup {Rat(k * k + 1, k * k - 1) : k \in GridSteps}
          \cup {Rat(k * k - 1, k * k + 1) : k \in GridSteps}

RadiusTensors == UNION {[1..n -> Radii] : n \in 1..MaxLen}

InitNFW ==
    /\ lens = NoLens
    /\ cosmology \in Cosmologies
    /\ last = NoCall
    /\ memo = NoMemo
    /\ multiplane = NoMultiplane
    /\ evaluated = NoBranches

\* NFW._f(x), NFW._g(x), NFW._h(x)
CallAux ==
    /\ Idle
    /\ \E op \in AuxOps, x \in RadiusTensors :
         /\ last' = [NoCall EXCEPT !.obj = "NFW", !.op = op, !.x = x,
                                   !.result = Value(AuxCall(op, x))]
         /\ evaluated' = AuxBranches(op, x)
    /\ UNCHANGED <<lens, cosmology, memo, multiplane>>

\* halo masses whose radius r_delta is 1 or 2, concentrations, centres
VirialRadii == {Rat(1, 1), Rat(2, 1)}

Masses(cosmo, z_l) ==
    {RMul(RMul(Rat(DELTA, 1), rho_cr(cosmo, z_l)), RMul(r, RSq(r))) : r \in VirialRadii}

Concentrations == {Rat(1, 1), Rat(2, 1)}

Centres == {<<Zero, Zero>>, <<One, RNeg(One)>>}

\* the coordinates, along the x axis through the centre, at which the
\* dimensionless radius of the halo is the tensor x of radii
AtRadii(x, z_l, cosmo, thx0, thy0, m, c) ==
    <<[i \in 1..Len(x) |->
          RAdd(thx0, RDiv(RMul(x[i], get_r_s(z_l, cosmo, m, c)),
                          RMul(angular_diameter_distance(cosmo, z_l), arcsec_to_rad)))],
      [i \in 1..Len(x) |-> thy0]>>

\* NFW.kappa(...), NFW.Psi(...)
CallProfile ==
    /\ Idle
    /\ \E op \in ProfileOps, x \in RadiusTensors, z_l \in LensRedshifts,
          z_s \in SourceRedshifts, centre \in Centres, c \in Concentrations :
         \E m \in Masses(cosmology, z_l) :
           LET th == AtRadii(x, z_l, cosmology, centre[1], centre[2], m, c)
           IN  /\ last' = [NoCall EXCEPT
                             !.obj = "NFW", !.op = op, !.x = th[1], !.y = th[2],
                             !.z_s = z_s,
                             !.kw = [z_l |-> z_l, thx0 |-> centre[1],
                                     thy0 |-> centre[2], m |-> m, c |-> c],
                             !.result = ProfileCall(op, th[1], th[2], z_l, z_s,
                                                    cosmology, centre[1],
                                                    centre[2], m, c)]
               /\ evaluated' =
                     IF op = "kappa"
                     THEN AuxBranches("_f", NFW_x(th[1], th[2], z_l, cosmology,
                                                  centre[1], centre[2], m, c))
                     ELSE NoBranches
    /\ UNCHANGED <<lens, cosmology, memo, multiplane>>

NextNFW == CallAux \/ CallProfile \/ Return

SpecNFW == InitNFW /\ [][NextNFW]_vars

\* ================================================================ claims

\* the call a state shows: on the ExternalShear instance, of a decorated
\* method, with every parameter resolved
ShearCallOf(op) == last.obj = "lens" /\ last.op = op
Resolved == IsValue(unpack(lens.params, last.P, last.kw))
ParamValue(name) ==
    Resolve(lens.params, last.P, last.kw,
            CHOOSE i \in 1..Len(lens.params) : lens.params[i].name = name)
Registered(name) == \E i \in 1..Len(lens.params) : lens.params[i].name = name

\* C1: ExternalShear.convergence returns zero at every coordinate: whenever
\* the shear values resolve, in either parametrization, the result is a
\* tensor of the shape of x whose every element is 0.
C1_ConvergenceIsZero ==
    (ShearCallOf("convergence") /\ Resolved) =>
        /\ IsValue(last.result)
        /\ Len(last.result.value) = Len(last.x)
        /\ \A i \in 1..Len(last.x) : last.result.value[i] = Zero

\* C2: the deflection angle of ExternalShear is the exact gradient of its
\* potential 1/2*gamma_1*(x^2 - y^2) + gamma_2*x*y: it is
\* (x*gamma_1 + y*gamma_2, x*gamma_2 - y*gamma_1), which equals the central
\* differences of the potential (exact on a quadratic), and the potential is
\* the stated polynomial; gamma_1 = 0.1, gamma_2 = 0 at (1, 1) gives
\* potential 0 and deflection (0.1, -0.1).
C2_DeflectionIsGradient ==
    LET g1 == last.kwargs["gamma_1"]
        g2 == last.kwargs["gamma_2"]
        x == last.x
        y == last.y
        psi(u, v) == PotentialValue(u, v, g1, g2).value
        example == g1 = Rat(1, 10) /\ g2 = Zero /\ x = <<One>> /\ y = <<One>>
    IN  /\ (ShearCallOf("reduced_deflection_angle") /\ IsValue(last.result)) =>
            /\ \A i \in 1..Len(x) :
                 /\ last.result.value[1][i] = RAdd(RMul(x[i], g1), RMul(y[i], g2))
                 /\ last.result.value[2][i] = RSub(RMul(x[i], g2), RMul(y[i], g1))
            /\ last.result.value[1] =
                 TScale(Half, TSub(psi(Shift(x, One), y), psi(Shift(x, RNeg(One)), y)))
            /\ last.result.value[2] =
                 TScale(Half, TSub(psi(x, Shift(y, One)), psi(x, Shift(y, RNeg(One)))))
            /\ example => last.result.value = <<<<Rat(1, 10)>>, <<Rat(-1, 10)>>>>
        /\ (ShearCallOf("potential") /\ IsValue(last.result)) =>
            /\ \A i \in 1..Len(x) :
                 RMul(Two, last.result.value[i]) =
                    RAdd(RMul(g1, RMul(RSub(x[i], y[i]), RAdd(x[i], y[i]))),
                         RMul(Two, RMul(g2, RMul(x[i], y[i]))))
            /\ example => last.result.value = <<Zero>>

\* C2 witness: the deflection call of the example, gamma_1 = 0.1 and
\* gamma_2 = 0 at (1, 1), returned (0.1, -0.1)
C2_Witness ==
    /\ ShearCallOf("reduced_deflection_angle")
    /\ IsValue(last.result)
    /\ last.kwargs["gamma_1"] = Rat(1, 10) /\ last.kwargs["gamma_2"] = Zero
    /\ last.x = <<One>> /\ last.y = <<One>>
    /\ last.result.value = <<<<Rat(1, 10)>>, <<Rat(-1, 10)>>>>

\* C3: with the polar parametrization every call of potential,
\* reduced_deflection_angle and convergence that passes resolution converts
\* the resolved (gamma, phi) to gamma_1 = gamma*cos(2*phi),
\* gamma_2 = gamma*sin(2*phi), overwriting any gamma_1/gamma_2 the caller
\* gave, and the result is the one the cartesian closed form gives on the
\* converted pair alone.
C3_PolarConverted ==
    (last.obj = "lens" /\ last.op \in ShearOps /\ lens.convert = "polar" /\ Resolved) =>
        LET g1 == RMul(ParamValue("gamma"), cos(RMul(Two, ParamValue("phi"))))
            g2 == RMul(ParamValue("gamma"), sin(RMul(Two, ParamValue("phi"))))
            only == [n \in {"gamma_1", "gamma_2"} |-> IF n = "gamma_1" THEN g1 ELSE g2]
        IN  /\ last.kwargs # None
            /\ last.kwargs["gamma_1"] = g1
            /\ last.kwargs["gamma_2"] = g2
            /\ last.result = ShearBody(lens, last.op, last.x, last.y, only).result

\* C3 witness: a polar call given a gamma_1 keyword returned a potential
\* computed from the converted value, not from the keyword
C3_Witness ==
    /\ ShearCallOf("potential") /\ lens.convert = "polar"
    /\ "gamma_1" \in DOMAIN last.kw
    /\ IsValue(last.result)
    /\ last.kwargs["gamma_1"] # last.kw["gamma_1"]

\* C4: an ExternalShear with no shear value bound, called through
\* convergence, potential or the deflection angle with no override bundle
\* and no keyword, ends in MissingParameterError raised by resolution: no
\* conversion and no method body runs, no value is returned, no other error
\* is raised.
NoShearBound ==
    /\ lens.status = "constructed"
    /\ \A i \in 2..Len(lens.params) : lens.params[i].value = None

C5_Parametrization ==
    LET p == lens.parametrization
        isCartesian == p \in {cartesian, <<"C", "a", "r", "t", "e", "s", "i", "a", "n">>}
        isPolar == p \in {polar, <<"P", "o", "l", "a", "r">>, <<"P", "O", "L", "A", "R">>}
    IN  /\ lens.status = "constructed" =>
            \/ isCartesian /\ ParamNames(lens.params) = <<"z_l", "gamma_1", "gamma_2">>
            \/ isPolar /\ ParamNames(lens.params) = <<"z_l", "gamma", "phi">>
        /\ lens.status = "failed" =>
            /\ ~isCartesian /\ ~isPolar
            /\ ParamNames(lens.params) = <<"z_l">>
        /\ (lens.status # "none" /\ (isCartesian \/ isPolar)) => lens.status = "constructed"

\* C5 witness: a construction with an unknown parametrization failed, and
\* one with a mixed-case 'Polar' registered gamma and phi
C5_WitnessFailed ==
    /\ lens.status = "failed"
    /\ lens.parametrization = <<"s", "h", "e", "a", "r">>

\* C6: z_l is registered first, before every subclass parameter, so the
\* first element of unpack(P) is the resolved z_l: the bundle's z_l when it
\* names one or supplies one positionally for a dynamic z_l, the bound z_l
\* otherwise; deflection_angle_hat scales by distances taken at that z_l.
ExpectedZl(P) ==
    IF P.kind = "named" /\ "z_l" \in DOMAIN P.named
    THEN P.named["z_l"]
    ELSE IF P.kind = "positional" /\ lens.params[1].value = None /\ Len(P.positional) >= 1
         THEN P.positional[1]
         ELSE lens.params[1].value

C6_ZlFirst ==
    /\ lens.status # "none" => lens.params[1].name = "z_l"
    /\ lens.status = "constructed" =>
         \A P \in Bundles(lens.params) :
            IsValue(unpack(lens.params, P, <<>>)) =>
               unpack(lens.params, P, <<>>).value[1] = ExpectedZl(P)
    /\ (last.obj = "lens" /\ last.op = "deflection_angle_hat" /\ IsValue(last.result)) =>
         LET z_l == ExpectedZl(last.P)
             ratio == RDiv(angular_diameter_distance(cosmology, last.z_s),
                           angular_diameter_distance_z1z2(cosmology, z_l, last.z_s))
             a == deflection_angle(lens, last.x, last.y, last.z_s, last.P).result.value
         IN  last.result.value = <<TScale(ratio, a[1]), TScale(ratio, a[2])>>

\* C6 witness: deflection_angle_hat returned with z_l taken from a bundle
\* while shear parameters were registered after it
C6_Witness ==
    /\ last.obj = "lens" /\ last.op = "deflection_angle_hat" /\ IsValue(last.result)
    /\ Len(lens.params) = 3
    /\ last.P.kind = "positional" /\ lens.params[1].value = None

\* a step that calls a lens operation
CallStep == Idle /\ ~Idle'

\* C7: every lens operation is stateless: a call, with or without a bundle,
\* leaves the registered parameters, the parametrization and conversion
\* choice and the shared cosmology handle unchanged, and a call with the
\* inputs of an earlier call returns the earlier result whatever was called
\* in between.
C7_Stateless ==
    [][CallStep =>
         /\ lens' = lens
         /\ cosmology' = cosmology
         /\ (memo.call.op # "none" /\ SameInputs(memo.call, last')) =>
               last'.result = memo.call.result]_vars

\* C7 witness: a call repeated after calls with other inputs returned a value
C7_Witness ==
    /\ memo.between
    /\ SameInputs(memo.call, last)
    /\ IsValue(last.result)
    /\ lens.convert = "polar"

\* C8: every public lens operation accepts the call with the bundle left
\* out: on a lens whose parameters are all bound, such a call is valid, it
\* neither fails to bind its arguments nor misses a parameter.
AllBound == \A i \in 1..Len(lens.params) : lens.params[i].value # None

C8_BundleOptional ==
    (last.obj = "lens" /\ last.op \in ThinOps /\ last.P.kind = "omitted"
        /\ last.kw = <<>> /\ AllBound) =>
        ~(IsError(last.result)
            /\ last.result.error \in {"TypeError", "MissingParameterError"})

\* a call of op on the multi-plane lens has returned
ThickCallOf(op) == last.obj = "multiplane" /\ last.op = op

\* C9: ray-tracing a multi-plane lens whose chain holds one thin lens
\* returns, for every (x, y), z_s and bundle, what that thin lens's own
\* single-plane raytrace returns for the same bundle.
C9_SinglePlane ==
    (ThickCallOf("raytrace") /\ Len(multiplane.lenses) = 1) =>
        last.result = raytrace(multiplane.lenses[1], last.x, last.y, last.z_s,
                               ChildBundle(multiplane.lenses, last.P, 1)).result

\* C9 witness: a chain of one lens whose redshift came with the bundle was
\* ray-traced to a position
C9_Witness ==
    /\ ThickCallOf("raytrace") /\ Len(multiplane.lenses) = 1
    /\ last.P.kind = "positional"
    /\ IsValue(last.result) /\ ~IsNaN(last.result)

\* the redshifts of the chain at the returned call are sorted
ChainSorted == NonDecreasing(ChainRedshifts(multiplane.lenses, last.P))

\* a ray-tracing call went through every plane of the chain
Traced ==
    /\ last.obj = "multiplane" /\ last.op \in ThickOps
    /\ IsValue(last.result)

AuxCallOf(op) == last.obj = "NFW" /\ last.op = op

\* the constant the claim gives for the branch term at x = 1
LimitConstant(op) == IF op = "_h" THEN One ELSE Zero

RAbs(a) == <<Abs(a[1]), a[2]>>

\* C11: F, G and H select exactly one of three branches for every x > 0:
\* the arctan form for x > 1, the arctanh form for x < 1, and at x = 1 the
\* constant 0 for F, 0 for the branch term of G, 1 for the branch term of
\* H. That constant is the common limit of the neighbouring branches: on
\* either side the branch term lies within 2 * |x - 1| of it. The returned
\* value is never nan.
C11_BranchAtOne ==
    (last.obj = "NFW" /\ last.op \in AuxOps) =>
        \A i \in 1..Len(last.x) :
            /\ FGt(last.x[i], One) => evaluated.selected[i] = evaluated.above[i]
            /\ FLt(last.x[i], One) => evaluated.selected[i] = evaluated.below[i]
            /\ last.x[i] = One => evaluated.selected[i] = LimitConstant(last.op)
            /\ IsFinite(evaluated.selected[i])
            /\ RLeq(RAbs(RSub(evaluated.selected[i], LimitConstant(last.op))),
                    RMul(Two, RAbs(RSub(last.x[i], One))))
            /\ IsFinite(last.result.value[i])

\* C11 witness: F was called at x = 1 and returned 0
C11_Witness ==
    /\ AuxCallOf("_f") /\ last.x[1] = One
    /\ last.result.value[1] = Zero

\* a call of the profile operation op of NFW has returned
ProfileCallOf(op) == last.obj = "NFW" /\ last.op = op

\* the dimensionless radius of the returned profile call
CalledRadius ==
    NFW_x(last.x, last.y, last.kw.z_l, cosmology, last.kw.thx0, last.kw.thy0,
          last.kw.m, last.kw.c)

\* C12: NFW convergence never propagates a division by zero: for every
\* dimensionless radius x > 0, x = 1 included, kappa returns a finite value
\* at every element.
C12_KappaFinite ==
    ProfileCallOf("kappa") =>
        /\ IsValue(last.result)
        /\ \A i \in 1..Len(last.x) : IsFinite(last.result.value[i])

\* C13: NFW.Psi completes without error on every valid input and returns
\* 4 * kappa_s * G(x) with kappa_s the value of get_kappa_s.
C13_PsiWorks ==
    ProfileCallOf("Psi") =>
        /\ IsValue(last.result)
        /\ last.result.value =
             [i \in 1..Len(last.x) |->
                 FMul(FMul(Rat(4, 1),
                           get_kappa_s(last.kw.z_l, last.z_s, cosmology,
                                       last.kw.m, last.kw.c)),
                      _g(CalledRadius)[i])]

\* C15: in F, G and H no branch expression is evaluated on an element
\* outside its domain: the tensors computed for the x > 1 branch and for
\* the x < 1 branch hold, at every element, a value of the expression on a
\* safe input, never the nan of a square root below zero or of 0 * inf.
C15_BranchDomains ==
    (last.obj = "NFW" /\ last.op \in AuxOps) =>
        \A i \in 1..Len(last.x) :
            /\ evaluated.above[i] # NaN
            /\ evaluated.below[i] # NaN

\* a round trip that began with the conversion op has returned
RoundTripFrom(op) ==
    /\ last.obj = "ExternalShear" /\ last.op \in ConvertOps
    /\ memo.call.op = op

\* two angles, in quarter-pi units, that differ by a multiple of pi
SameModPi(a, b) == a[2] = 1 /\ b[2] = 1 /\ (a[1] - b[1]) % 4 = 0

====
